---------------------------- MODULE Spec2Model ----------------------------
(***************************************************************************)
(* Model of the Terabox downloader bot (src/bot.py): the request pipeline  *)
(* of text_handler (resolve, extract, download into a spooled temporary    *)
(* file, upload / copy / fallback upload) and the transfer engine          *)
(* download_into_spooled_file with its size limits and throttled progress  *)
(* events.                                                                 *)
(*                                                                         *)
(* Byte strings are kept run-length encoded: a sequence of blocks          *)
(* [b |-> byte value, n |-> count > 0] in which adjacent blocks differ in  *)
(* b, so that two byte strings are equal iff their encodings are equal.    *)
(* Sizes are in bytes and keep the values of the source (64 KiB chunks,    *)
(* 1 MiB spool unit).                                                      *)
(*                                                                         *)
(* Calls to the platform client and the HTTP client are the environment:   *)
(* each is an input drawn with \E (status, content-length, chunk, success  *)
(* or failure).  Status edits made directly by text_handler are taken to   *)
(* succeed.                                                                *)
(*                                                                         *)
(* Specifications, all over the same variables:                            *)
(*   Spec         one run of text_handler, small bodies                    *)
(*   SpecStream   download_into_spooled_file on bodies of 64 KiB chunks    *)
(*   SpecBig      the same on a body above 100 MiB of unknown length       *)
(*   SpecExtract  extract_url on payloads of many shapes                   *)
(*   SpecConc     concurrent runs of text_handler and the counters         *)
(*   SpecAdmin    the admin commands beside a run of text_handler          *)
(*   SpecUpload   the uploads with the progress callback and its tasks     *)
(***************************************************************************)
EXTENDS Integers, Sequences, FiniteSets, TLC

(***************************************************************************)
(* Program constants                                                       *)
(***************************************************************************)
\* chunk_size = 1024 * 64 (bot.py:250)
chunk_size == 65536
\* 1024 * 1024, the spool unit (bot.py:227) and the unknown-total heuristic (bot.py:262)
MiB == 1048576
\* int(os.getenv("TMP_SPOOL_LIMIT_MB", "16")) (bot.py:33), at its default
TMP_SPOOL_LIMIT_MB == 16

(***************************************************************************)
(* Bounds of the model                                                     *)
(***************************************************************************)
\* chunks read per transfer in the pipeline specification
MaxChunks == 3
\* chunks read per transfer in the streaming specification
MaxStreamChunks == 260
\* concurrent runs of text_handler
NInst == 3
\* chunks read per transfer of a body above 100 MiB
MaxBigChunks == 1640
\* values of a top-level sequence payload
MaxListLen == 2
\* admin commands handled
MaxCmds == 2

Min(a, b) == IF a <= b THEN a ELSE b

(***************************************************************************)
(* Byte strings (run-length encoded)                                       *)
(***************************************************************************)
NoBytes == <<>>

RECURSIVE BLen(_)
BLen(bs) == IF bs = <<>> THEN 0 ELSE Head(bs).n + BLen(Tail(bs))

\* bs followed by n bytes of value b
BAppend(bs, b, n) ==
    IF n = 0 THEN bs
    ELSE IF bs # <<>> /\ bs[Len(bs)].b = b
         THEN [bs EXCEPT ![Len(bs)].n = @ + n]
         ELSE Append(bs, [b |-> b, n |-> n])

RECURSIVE BConcat(_, _)
BConcat(x, y) ==
    IF y = <<>> THEN x
    ELSE BConcat(BAppend(x, Head(y).b, Head(y).n), Tail(y))

\* bs without its first k bytes
RECURSIVE BDrop(_, _)
BDrop(bs, k) ==
    IF k = 0 \/ bs = <<>> THEN bs
    ELSE IF Head(bs).n <= k THEN BDrop(Tail(bs), k - Head(bs).n)
         ELSE <<[b |-> Head(bs).b, n |-> Head(bs).n - k]>> \o Tail(bs)

\* the first k bytes of bs
RECURSIVE BTake(_, _)
BTake(bs, k) ==
    IF k = 0 \/ bs = <<>> THEN <<>>
    ELSE IF Head(bs).n <= k THEN <<Head(bs)>> \o BTake(Tail(bs), k - Head(bs).n)
         ELSE <<[b |-> Head(bs).b, n |-> k]>>

(***************************************************************************)
(* tempfile.SpooledTemporaryFile as the code uses it                       *)
(***************************************************************************)
\* no file yet (before bot.py:228)
NoFile == [state |-> "none", data |-> NoBytes, pos |-> 0, rolled |-> FALSE, limit |-> 0]

\* tmp = tempfile.SpooledTemporaryFile(max_size=spooled_limit)
SpooledTemporaryFile(limit) ==
    [state |-> "open", data |-> NoBytes, pos |-> 0, rolled |-> FALSE, limit |-> limit]

\* tmp.write(chunk): the bytes go in at the position, which moves behind them;
\* the file rolls over to disk once the position passes a non-zero limit
SpooledWrite(f, chunk) ==
    LET n    == BLen(chunk)
        data == BConcat(BConcat(BTake(f.data, f.pos), chunk), BDrop(f.data, f.pos + n))
        pos  == f.pos + n
    IN [f EXCEPT !.data = data, !.pos = pos,
                 !.rolled = f.rolled \/ (f.limit # 0 /\ pos > f.limit)]

\* tmp.seek(p)
SpooledSeek(f, p) == [f EXCEPT !.pos = p]

\* the bytes a read to the end returns
SpooledReadData(f) == BDrop(f.data, f.pos)

\* the file after a read to the end
SpooledReadFile(f) == [f EXCEPT !.pos = IF f.pos > BLen(f.data) THEN f.pos ELSE BLen(f.data)]

\* spooled_file.close()
SpooledClose(f) == [f EXCEPT !.state = "closed"]

(***************************************************************************)
(* Strings (sequences of one-character strings) and the URL patterns       *)
(***************************************************************************)
Http == <<"h", "t", "t", "p">>

\* s.startswith(p)
StartsWith(s, p) == Len(s) >= Len(p) /\ SubSeq(s, 1, Len(p)) = p

\* \s of the regular expressions, over the alphabet of the model
IsSpace(c) == c = " "

\* the index of the last character of the longest run of non-space characters
\* that starts at i (i - 1 if s[i] is a space or i is past the end)
RECURSIVE RunEnd(_, _)
RunEnd(s, i) ==
    IF i > Len(s) \/ IsSpace(s[i]) THEN i - 1 ELSE RunEnd(s, i + 1)

\* GENERIC_URL_RX = https?://[^\s]+ matched at index i: the index of the last
\* character of the match, 0 if there is none
UrlMatchEnd(s, i) ==
    LET rest == SubSeq(s, i, Len(s))
        j    == IF StartsWith(rest, Http \o <<"s">>) THEN i + 5 ELSE i + 4
    IN IF StartsWith(rest, Http)
          /\ StartsWith(SubSeq(s, j, Len(s)), <<":", "/", "/">>)
          /\ RunEnd(s, j + 3) >= j + 3
       THEN RunEnd(s, j + 3)
       ELSE 0

\* GENERIC_URL_RX.search(s): m.group(0), or <<>> for no match
GenericUrlSearch(s) ==
    LET starts == {i \in 1..Len(s) : UrlMatchEnd(s, i) # 0}
    IN IF starts = {} THEN <<>>
       ELSE LET i == CHOOSE k \in starts : \A m \in starts : k <= m
            IN SubSeq(s, i, UrlMatchEnd(s, i))

(***************************************************************************)
(* Resolver payloads: a tagged tree.  t is "str" (s holds the text),       *)
(* "dict" (items holds <<key, value>> pairs in insertion order, keys       *)
(* unique), "list" (items holds the values) or "num".                      *)
(***************************************************************************)
PStr(s)      == [t |-> "str",  s |-> s,    items |-> <<>>]
PNum         == [t |-> "num",  s |-> <<>>, items |-> <<>>]
PDict(items) == [t |-> "dict", s |-> <<>>, items |-> items]
PList(items) == [t |-> "list", s |-> <<>>, items |-> items]

\* api_data.get(key): the value, or PNum standing for None when the key is absent
DictGet(d, key) ==
    LET hits == {i \in 1..Len(d.items) : d.items[i][1] = key}
    IN IF hits = {} THEN PNum ELSE d.items[CHOOSE i \in hits : TRUE][2]

\* the values a loop over obj.values() or over a list visits, in order
ValuesOf(obj) ==
    IF obj.t = "dict" THEN [i \in 1..Len(obj.items) |-> obj.items[i][2]]
    ELSE obj.items

\* the nested find(obj) of extract_url; <<>> stands for None
RECURSIVE find(_)
RECURSIVE FindFirst(_)
find(obj) ==
    IF obj.t = "str"
    THEN IF StartsWith(obj.s, Http) THEN obj.s ELSE GenericUrlSearch(obj.s)
    ELSE IF obj.t \in {"dict", "list"} THEN FindFirst(ValuesOf(obj))
    ELSE <<>>

\* for v in vs: r = find(v); if r: return r
FindFirst(vs) ==
    IF vs = <<>> THEN <<>>
    ELSE LET r == find(Head(vs))
         IN IF r # <<>> THEN r ELSE FindFirst(Tail(vs))

\* the known keys with the first two exchanged
KnownKeysSwapped == <<"url", "download", "link", "download_url">>

\* bot.py:161: the known keys, in the order of the loop
KnownKeys == <<"download", "url", "link", "download_url">>

\* the loop over the known keys, from key number k on; <<>> if none matches
RECURSIVE KnownKeyHit(_, _)
KnownKeyHit(d, k) ==
    IF k > Len(KnownKeys) THEN <<>>
    ELSE LET val == DictGet(d, KnownKeys[k])
         IN IF val.t = "str" /\ StartsWith(val.s, Http) THEN val.s
            ELSE KnownKeyHit(d, k + 1)

\* extract_url(api_data); <<>> stands for None
extract_url(api_data) ==
    IF api_data.t = "str" THEN GenericUrlSearch(api_data.s)
    ELSE IF api_data.t = "dict"
         THEN IF KnownKeyHit(api_data, 1) # <<>> THEN KnownKeyHit(api_data, 1)
              ELSE find(api_data)
         ELSE <<>>

(***************************************************************************)
(* Inputs of the model                                                     *)
(***************************************************************************)
UrlA == <<"h", "t", "t", "p", ":", "/", "/", "a">>
UrlB == <<"h", "t", "t", "p", "s", ":", "/", "/", "b">>

\* what the resolver may answer (a tuple: the payloads are of mixed shape)
Payloads ==
    << PDict(<< <<"download", PStr(UrlA)>> >>),
       PStr(<<"n", "o">>),
       PDict(<< <<"error", PNum>> >>),
       PStr(<<"x", " ">> \o UrlB \o <<" ", "y">>),
       PDict(<< <<"data", PList(<<PNum, PStr(UrlA)>>)>> >>) >>

\* MAX_FILE_SIZE values (0 = no limit)
MaxSizes == {0, 2}
\* advertised content-lengths (0 = none advertised)
Totals == {0, 1, 2, 3}
\* chunk lengths iter_chunked delivers in the pipeline specification
ChunkLens == {1, 2}
\* byte values
Bytes == {0, 1}
\* content-type and extension of the filename hint
Heads == { <<"video/mp4", ".bin">>, <<"", ".mkv">>, <<"", ".bin">> }

\* values of the streaming specification
StreamMaxSizes == {0, 20 * chunk_size}
StreamTotals == {0, chunk_size, 10 * chunk_size, 30 * chunk_size}
StreamHeads == { <<"", ".bin">> }

VARIABLES
    pc,              \* where text_handler stands
    force_sub,       \* setting force_sub: "" (unset) or a channel
    dumb_channel,    \* setting dumb_channel: "" (unset) or a channel
    resolved_links,  \* counter
    uploaded_files,  \* counter
    status,          \* text of the status message ("" before it exists)
    reply,           \* text of a plain reply to the message ("" if none)
    direct,          \* the extracted URL (<<>> for None)
    max_size,        \* MAX_FILE_SIZE
    resp,            \* the HTTP response: status, content_length, compressed, ctype, ext
    total,           \* download_into_spooled_file: total
    downloaded,      \* download_into_spooled_file: downloaded
    last_percent,    \* download_into_spooled_file: last_percent
    events,          \* percents passed to status_edit_cb, in call order
    tmp,             \* the SpooledTemporaryFile
    received,        \* the chunks received so far, concatenated
    nread,           \* number of chunks read
    lastLen,         \* length of the last chunk read
    dlError,         \* "" or why the download raised
    dc,              \* text_handler: dc
    log,             \* calls made to the resolver, the HTTP client and the platform
    crashed,         \* an exception left text_handler
    membership,      \* what get_chat_member answered ("" if it was not asked)
    chunks,          \* the chunks read so far, as <<length, byte value>>
    cbRaised,        \* some call of status_edit_cb raised in this transfer
    inst,            \* concurrent runs of text_handler: where each stands
    incrCalls,       \* number of stat_incr calls made, by key
    stats0,          \* the stats rows when the runs began, by key
    api_template,    \* setting api_template
    payload,         \* extract_url: api_data
    extracted,       \* extract_url: the value returned (<<>> for None)
    cmd,             \* the admin command handled last: name, sender, argument
    ncmd,            \* number of admin commands handled
    sent,            \* bytes the platform client reported as sent, by upload call
    tasks,           \* edit_status tasks created and not yet run, in creation order
    edits            \* the status edits the tasks of make_progress_cb issued, in order

vars == << pc, force_sub, dumb_channel, resolved_links, uploaded_files, status, reply,
           direct, max_size, resp, total, downloaded, last_percent, events, tmp,
           received, nread, lastLen, dlError, dc, log, crashed, membership, chunks,
           cbRaised, inst, incrCalls, stats0, api_template, payload, extracted, cmd,
           ncmd, sent, tasks, edits >>

settingsVars == << force_sub, dumb_channel, api_template >>
transferVars == << resp, total, downloaded, last_percent, events, tmp, received,
                   nread, lastLen, dlError, chunks, cbRaised >>
\* the state of the concurrent runs, which a single run of the pipeline leaves alone
concVars == << inst, incrCalls, stats0 >>
\* the input and the result of an extraction on its own
extractVars == << payload, extracted >>
\* the admin commands handled
adminVars == << cmd, ncmd >>
\* the progress of the uploads
uploadVars == << sent, tasks, edits >>
auxVars == << concVars, extractVars, adminVars, uploadVars >>

\* a stats row that does not exist (SELECT finds no row)
NoRow == -1

\* the keys of the stats table
StatKeys == {"resolved_links", "uploaded_files"}

NoResp == [status |-> 0, content_length |-> 0, compressed |-> FALSE,
           ctype |-> "", ext |-> ""]

\* one entry of the call log
Call(op, to, ok, data) == [op |-> op, to |-> to, ok |-> ok, data |-> data]

\* the variables of one run of text_handler before it starts
InitRun ==
    /\ reply = ""
    /\ resp = NoResp
    /\ total = 0
    /\ downloaded = 0
    /\ last_percent = -1
    /\ events = <<>>
    /\ tmp = NoFile
    /\ received = NoBytes
    /\ nread = 0
    /\ lastLen = 0
    /\ dlError = ""
    /\ dc = ""
    /\ log = <<>>
    /\ crashed = FALSE
    /\ membership = ""
    /\ chunks = <<>>
    /\ cbRaised = FALSE

InitCommon ==
    /\ InitRun
    /\ resolved_links = 0
    /\ uploaded_files = 0

\* no concurrent runs
ConcIdle ==
    /\ inst = <<>>
    /\ incrCalls = [k \in StatKeys |-> 0]
    /\ stats0 = [k \in StatKeys |-> 0]

\* no extraction on its own
ExtractIdle ==
    /\ payload = PNum
    /\ extracted = <<>>

\* no admin command handled yet
NoCmd == [name |-> "", uid |-> 0, arg |-> "", reply |-> ""]

AdminIdle ==
    /\ cmd = NoCmd
    /\ ncmd = 0

\* the positions of text_handler inside an upload call
UploadCalls == {"up_archive", "up_fallback", "up_direct"}

\* no upload has reported progress
UploadIdle ==
    /\ sent = [c \in UploadCalls |-> 0]
    /\ tasks = <<>>
    /\ edits = <<>>

AuxIdle ==
    /\ ConcIdle
    /\ ExtractIdle
    /\ AdminIdle
    /\ UploadIdle

\* a text message has arrived; the settings and the size limit are as configured
Init ==
    /\ InitCommon
    /\ AuxIdle
    /\ pc = "recv"
    /\ force_sub \in {"", "@fs"}
    /\ dumb_channel \in {"", "@dumb"}
    /\ api_template = "default"
    /\ max_size \in MaxSizes
    /\ status = ""
    /\ direct = <<>>

(***************************************************************************)
(* text_handler up to the download                                         *)
(***************************************************************************)
\* a gate that lets the user in when the membership check raises
ensure_joinedFailOpen(fs, m) ==
    IF fs = "" \/ m \in {"creator", "administrator", "member", "error"} THEN ""
    ELSE "You must join"

\* ensure_joined(user_id) for a membership answer m ("error": get_chat_member raised):
\* the reason, "" for None
ensure_joined(fs, m) ==
    IF fs = "" THEN ""
    ELSE IF m \in {"creator", "administrator", "member"} THEN ""
    ELSE IF m = "error" THEN "Cannot verify membership"
    ELSE "You must join"

\* what get_chat_member may answer: a member.status, or "error" when it raises
MemberAnswers == {"member", "left", "error"}

\* text_handler, bot.py:375-389: the force-sub gate and the status message
Receive ==
    /\ pc = "recv"
    /\ \E m \in IF force_sub = "" THEN {""} ELSE MemberAnswers :
         LET fs_reason == ensure_joined(force_sub, m)
         IN /\ membership' = m
            /\ IF fs_reason # ""
               THEN /\ reply' = "Access denied"
                    /\ pc' = "done"
                    /\ UNCHANGED status
               ELSE /\ status' = "Resolving"
                    /\ pc' = "resolve"
                    /\ UNCHANGED reply
    /\ UNCHANGED << settingsVars, auxVars, resolved_links, uploaded_files, direct, max_size,
                    transferVars, dc, log, crashed >>

\* the read of the row left out: the row is overwritten with inc
stat_incrBlind(row, inc) == inc

\* stat_incr(key, inc) on the row of the key, bot.py:94-107: the new row
stat_incr(row, inc) == IF row # NoRow THEN row + inc ELSE inc

\* stat_get(key) on the row of the key, bot.py:109-116
stat_get(row) == IF row # NoRow THEN row ELSE 0

\* the extraction failure reported without the return: the run goes on
AfterResolveNoReturn(api_data) ==
    LET url == extract_url(api_data)
    IN /\ direct' = url
       /\ resolved_links' = stat_incr(resolved_links, 1)
       /\ pc' = "dl_open"
       /\ status' = IF url # <<>> THEN status
                     ELSE IF api_data.t = "str" THEN "Could not parse (raw)"
                     ELSE "Could not parse"

\* what text_handler does with the resolver's answer, bot.py:399-413
AfterResolve(api_data) ==
    LET url == extract_url(api_data)
    IN IF url = <<>>
       THEN /\ status' = IF api_data.t = "str" THEN "Could not parse (raw)"
                         ELSE "Could not parse"
            /\ pc' = "done"
            /\ UNCHANGED << direct, resolved_links >>
       ELSE /\ direct' = url
            /\ resolved_links' = stat_incr(resolved_links, 1)
            /\ pc' = "dl_open"
            /\ UNCHANGED status

\* what text_handler does when call_resolver_api raised, bot.py:394-397
ResolveRaised ==
    /\ status' = "Error contacting resolver"
    /\ pc' = "done"
    /\ UNCHANGED << direct, resolved_links >>

\* text_handler, bot.py:391-413: the resolver call and the extraction
Resolve ==
    /\ pc = "resolve"
    /\ \E i \in 0..Len(Payloads) :
         /\ log' = Append(log, Call("resolve", "", i # 0, NoBytes))
         /\ IF i = 0 THEN ResolveRaised ELSE AfterResolve(Payloads[i])
    /\ UNCHANGED << settingsVars, auxVars, uploaded_files, reply, max_size, transferVars, dc,
                    crashed, membership >>

(***************************************************************************)
(* download_into_spooled_file                                              *)
(***************************************************************************)
\* the eager check left out
EagerTooLargeSkipped(m, t) == FALSE

\* bot.py:236: the eager check of the advertised length
EagerTooLarge(m, t) == m # 0 /\ t # 0 /\ t > m

\* the reactive check with >= for >
ReactiveTooLargeOffByOne(m, t, d) == m # 0 /\ t = 0 /\ d >= m

\* bot.py:257: the reactive check of the bytes received
ReactiveTooLarge(m, t, d) == m # 0 /\ t = 0 /\ d > m

\* the percent without the cap of the unknown-length estimate
PercentUncapped(d, t) ==
    IF t # 0 THEN (d * 100) \div t
    ELSE d \div MiB

\* bot.py:259-262: percent
Percent(d, t) ==
    IF t # 0 THEN (d * 100) \div t
    ELSE Min(99, d \div MiB)

\* a throttle that passes every changed percent
ShouldEmitEveryChange(percent, last) == percent # last

\* bot.py:263: whether the chunk's percent is passed to the callback
ShouldEmit(percent, last) ==
    percent # last /\ (percent % 2 = 0 \/ percent \in {0, 100})

\* the return without the seek
RewindSkipped(f) == f

\* bot.py:274: tmp.seek(0) before the return
Rewind(f) == SpooledSeek(f, 0)

\* text_handler's handler of a failed download, bot.py:433-436
DownloadFailed(why) ==
    /\ dlError' = why
    /\ status' = "Download failed"
    /\ pc' = "done"

\* bot.py:227-251: the file is created, the GET is answered with status st,
\* content-length cl (0: none) and headers hd; the status and the advertised
\* length are checked
Open(st, cl, cmp, hd) ==
    /\ pc = "dl_open"
    /\ tmp' = SpooledTemporaryFile(TMP_SPOOL_LIMIT_MB * MiB)
    /\ resp' = [status |-> st, content_length |-> cl, compressed |-> cmp,
                ctype |-> hd[1], ext |-> hd[2]]
    /\ log' = Append(log, Call("get", "", st = 200, NoBytes))
    /\ IF st # 200
       THEN /\ DownloadFailed("status")
            /\ UNCHANGED total
       ELSE /\ total' = cl
            /\ IF EagerTooLarge(max_size, cl)
               THEN DownloadFailed("toolarge")
               ELSE /\ pc' = "streaming"
                    /\ UNCHANGED << dlError, status >>
    /\ UNCHANGED << settingsVars, auxVars, resolved_links, uploaded_files, reply, direct,
                    max_size, downloaded, last_percent, events, received, nread,
                    lastLen, dc, crashed, membership, chunks, cbRaised >>

\* the callback's exception swallowed or not
CallbackPropagatesRaised(raised) == raised

\* bot.py:266-267 and 272-273, except Exception: pass: whether an exception raised
\* by status_edit_cb leaves download_into_spooled_file
CallbackPropagates(raised) == FALSE

\* bot.py:264-267 and 270-273: await status_edit_cb(...) inside try/except; the
\* callback of text_handler (bot.py:416-423) edits the status message; the
\* function then goes on to position next
Callback(raised, next) ==
    /\ cbRaised' = (cbRaised \/ raised)
    /\ IF raised /\ CallbackPropagates(raised)
       THEN DownloadFailed("callback")
       ELSE /\ status' = IF raised THEN status ELSE "Downloading"
            /\ pc' = next
            /\ UNCHANGED dlError

\* the body may hold more bytes: of a response that is not compressed the client
\* delivers at most the advertised length; of a compressed one (Content-Encoding,
\* decoded by the client) or one without a length, any number
MoreBody(n) == resp.compressed \/ total = 0 \/ downloaded + n <= total

\* the body may end here: a body that is not compressed ends at its advertised length
BodyEnds == resp.compressed \/ total = 0 \/ downloaded = total

\* bot.py:252-268: one round of the loop with a chunk of n bytes of value b
Read(n, b) ==
    /\ pc = "streaming"
    /\ MoreBody(n)
    /\ tmp' = SpooledWrite(tmp, <<[b |-> b, n |-> n]>>)
    /\ received' = BAppend(received, b, n)
    /\ downloaded' = downloaded + n
    /\ nread' = nread + 1
    /\ lastLen' = n
    /\ chunks' = Append(chunks, <<n, b>>)
    /\ IF ReactiveTooLarge(max_size, total, downloaded')
       THEN /\ DownloadFailed("toolarge")
            /\ UNCHANGED << events, last_percent, cbRaised >>
       ELSE LET percent == Percent(downloaded', total)
            IN IF ShouldEmit(percent, last_percent)
               THEN /\ events' = Append(events, percent)
                    /\ last_percent' = percent
                    /\ \E raised \in BOOLEAN : Callback(raised, pc)
               ELSE UNCHANGED << events, last_percent, status, pc, dlError, cbRaised >>
    /\ UNCHANGED << settingsVars, auxVars, resolved_links, uploaded_files, reply, direct,
                    max_size, resp, total, dc, log, crashed, membership >>

\* bot.py:252: the read of the next chunk raises (a network fault, a body cut short)
TransportError ==
    /\ pc = "streaming"
    /\ DownloadFailed("transport")
    /\ UNCHANGED << settingsVars, auxVars, resolved_links, uploaded_files, reply, direct,
                    max_size, resp, total, downloaded, last_percent, events, tmp,
                    received, nread, lastLen, dc, log, crashed, membership, chunks,
                    cbRaised >>

\* bot.py:269-275: the stream is exhausted (or delivered an empty chunk): the final
\* event, the rewind and the return to text_handler
StreamEnd ==
    /\ pc = "streaming"
    /\ BodyEnds
    /\ events' = Append(events, 100)
    /\ \E raised \in BOOLEAN :
         /\ Callback(raised, "settings")
         /\ tmp' = IF raised /\ CallbackPropagates(raised) THEN tmp ELSE Rewind(tmp)
    /\ UNCHANGED << settingsVars, auxVars, resolved_links, uploaded_files, reply, direct,
                    max_size, resp, total, downloaded, last_percent, received, nread,
                    lastLen, dc, log, crashed, membership, chunks >>

\* the transfer of the pipeline specification
DlOpen ==
    \E st \in {200, 404}, cl \in Totals, cmp \in BOOLEAN, hd \in Heads :
        /\ (st # 200 => cl = 0 /\ ~cmp /\ hd = <<"", ".bin">>)
        /\ Open(st, cl, cmp, hd)

ReadChunk ==
    /\ nread < MaxChunks
    /\ \E n \in ChunkLens, b \in Bytes : Read(n, b)

(***************************************************************************)
(* text_handler after the download: classification and delivery            *)
(***************************************************************************)
\* bot.py:439-445
is_video(ctype, ext) ==
    IF ctype \in {"video/mp4"} THEN TRUE
    ELSE ext \in {".mp4", ".mkv", ".mov", ".webm", ".ts"}

\* send_video or send_document, by the classification (bot.py:456, 482, 492)
SendOp == IF is_video(resp.ctype, resp.ext) THEN "send_video" ELSE "send_document"

\* the fallback without the seek
SeekForFallbackSkipped(f) == f

\* bot.py:480: spooled_file.seek(0) before the fallback upload
SeekForFallback(f) == SpooledSeek(f, 0)

\* bot.py:498-505: the handler of a failed upload and the finally clause
UploadFailed ==
    /\ status' = "Upload failed"
    /\ pc' = "done"

\* a delivery that is not counted
DeliveredUncounted(text) ==
    /\ UNCHANGED uploaded_files
    /\ status' = text
    /\ pc' = "done"

\* bot.py:486-487 and 496-497 with the finally clause: the counter and the Done text
Delivered(text) ==
    /\ uploaded_files' = stat_incr(uploaded_files, 1)
    /\ status' = text
    /\ pc' = "done"

\* bot.py:438-455 and 488-491: dc = db_get("dumb_channel") (which may raise: the
\* exception leaves text_handler), the seek and the first status text
ReadSettings ==
    /\ pc = "settings"
    /\ \E raised \in BOOLEAN :
         IF raised
         THEN /\ crashed' = TRUE
              /\ pc' = "done"
              /\ UNCHANGED << dc, tmp, status >>
         ELSE /\ dc' = dumb_channel
              /\ tmp' = SpooledSeek(tmp, 0)
              /\ status' = IF dumb_channel # "" THEN "Uploading to dumb channel"
                           ELSE "Uploading file to you"
              /\ pc' = IF dumb_channel # "" THEN "up_archive" ELSE "up_direct"
              /\ UNCHANGED crashed
    /\ UNCHANGED << settingsVars, auxVars, resolved_links, uploaded_files, reply, direct,
                    max_size, resp, total, downloaded, last_percent, events,
                    received, nread, lastLen, dlError, log, membership, chunks,
                    cbRaised >>

\* bot.py:456-475: the upload to the dumb channel, then the Copying text
UploadArchive ==
    /\ pc = "up_archive"
    /\ \E ok \in BOOLEAN :
         /\ log' = Append(log, Call(SendOp, "archive", ok, SpooledReadData(tmp)))
         /\ IF ok
            THEN /\ tmp' = SpooledReadFile(tmp)
                 /\ status' = "Copying file to you"
                 /\ pc' = "copy"
            ELSE /\ UploadFailed
                 /\ tmp' = SpooledClose(tmp)
    /\ UNCHANGED << settingsVars, auxVars, resolved_links, uploaded_files, reply, direct,
                    max_size, resp, total, downloaded, last_percent, events,
                    received, nread, lastLen, dlError, dc, crashed, membership, chunks,
                    cbRaised >>

\* bot.py:476-481 and 486-487: copy_message; on success the run is delivered, on
\* failure the file is rewound for the fallback
CopyToUser ==
    /\ pc = "copy"
    /\ \E ok \in BOOLEAN :
         /\ log' = Append(log, Call("copy", "user", ok, NoBytes))
         /\ IF ok
            THEN /\ Delivered("Done (dumb channel)")
                 /\ tmp' = SpooledClose(tmp)
            ELSE /\ tmp' = SeekForFallback(tmp)
                 /\ pc' = "up_fallback"
                 /\ UNCHANGED << uploaded_files, status >>
    /\ UNCHANGED << settingsVars, auxVars, resolved_links, reply, direct, max_size, resp,
                    total, downloaded, last_percent, events, received, nread,
                    lastLen, dlError, dc, crashed, membership, chunks, cbRaised >>

\* an upload to the requester: bot.py:482-487 (fallback) or 492-497 (direct)
UploadToUser(at, text) ==
    /\ pc = at
    /\ \E ok \in BOOLEAN :
         /\ log' = Append(log, Call(SendOp, "user", ok, SpooledReadData(tmp)))
         /\ IF ok
            THEN Delivered(text)
            ELSE /\ UploadFailed
                 /\ UNCHANGED uploaded_files
         /\ tmp' = SpooledClose(IF ok THEN SpooledReadFile(tmp) ELSE tmp)
    /\ UNCHANGED << settingsVars, auxVars, resolved_links, reply, direct, max_size, resp,
                    total, downloaded, last_percent, events, received, nread,
                    lastLen, dlError, dc, crashed, membership, chunks, cbRaised >>

FallbackUpload == UploadToUser("up_fallback", "Done (dumb channel)")

UploadDirect == UploadToUser("up_direct", "Done (direct)")

Next ==
    \/ Receive
    \/ Resolve
    \/ DlOpen
    \/ ReadChunk
    \/ TransportError
    \/ StreamEnd
    \/ ReadSettings
    \/ UploadArchive
    \/ CopyToUser
    \/ FallbackUpload
    \/ UploadDirect

Spec == Init /\ [][Next]_vars

(***************************************************************************)
(* The transfer engine alone, on long bodies of full chunks                *)
(***************************************************************************)
\* text_handler is about to call download_into_spooled_file
InitStream ==
    /\ InitCommon
    /\ AuxIdle
    /\ pc = "dl_open"
    /\ force_sub = ""
    /\ dumb_channel = ""
    /\ api_template = "default"
    /\ max_size \in StreamMaxSizes
    /\ status = "Resolving"
    /\ direct = UrlA

DlOpenStream ==
    \E cl \in StreamTotals, cmp \in BOOLEAN, hd \in StreamHeads : Open(200, cl, cmp, hd)

\* a chunk of chunk_size bytes, the byte value alternating from chunk to chunk
ReadFull ==
    /\ nread < MaxStreamChunks
    /\ Read(chunk_size, nread % 2)

NextStream ==
    \/ DlOpenStream
    \/ ReadFull
    \/ TransportError
    \/ StreamEnd

SpecStream == InitStream /\ [][NextStream]_vars


(***************************************************************************)
(* extract_url alone, on payloads of many shapes                           *)
(***************************************************************************)
\* the values a key of a payload or a place of a sequence may hold (a tuple: the
\* values are of mixed shape)
Vals ==
    << PStr(UrlA),
       PStr(UrlB),
       PStr(<<"n", "o">>),
       PStr(<<"x", " ">> \o UrlB \o <<" ", "y">>),
       PStr(Http),
       PNum,
       PList(<< PNum, PStr(UrlA) >>),
       PDict(<< <<"note", PStr(<<"n", "o">>)>>, <<"url", PStr(UrlB)>> >>) >>

\* the keys of a mapping payload: the known keys and one more
PayloadKeys == <<"download", "url", "link", "download_url", "data">>

\* the items of a mapping that holds Vals[c[k]] under key k of PayloadKeys
\* (c[k] = 0: the key is absent), inserted from key k on, in the order of
\* PayloadKeys or in the reverse order
RECURSIVE DictItems(_, _, _)
DictItems(c, k, reversed) ==
    IF k > Len(PayloadKeys) THEN <<>>
    ELSE LET item == IF c[k] = 0 THEN <<>> ELSE << <<PayloadKeys[k], Vals[c[k]]>> >>
             rest == DictItems(c, k + 1, reversed)
         IN IF reversed THEN rest \o item ELSE item \o rest

\* the values of a sequence that holds Vals[c[1]], Vals[c[2]], ...
ListItems(c) == [i \in 1..Len(c) |-> Vals[c[i]]]

\* extract_url is about to be called on a payload: a mapping, a sequence or a string
InitExtract ==
    /\ InitCommon
    /\ ConcIdle
    /\ AdminIdle
    /\ UploadIdle
    /\ pc = "extract"
    /\ force_sub = ""
    /\ dumb_channel = ""
    /\ api_template = "default"
    /\ max_size = 0
    /\ status = "Resolving"
    /\ direct = <<>>
    /\ extracted = <<>>
    /\ \/ \E c \in [1..Len(PayloadKeys) -> 0..Len(Vals)], reversed \in BOOLEAN :
            payload = PDict(DictItems(c, 1, reversed))
       \/ \E n \in 0..MaxListLen : \E c \in [1..n -> 1..Len(Vals)] :
            payload = PList(ListItems(c))
       \/ \E i \in 1..5 : payload = Vals[i]

\* bot.py:403: direct = extract_url(api_data)
Extract ==
    /\ pc = "extract"
    /\ extracted' = extract_url(payload)
    /\ pc' = "extracted"
    /\ UNCHANGED << settingsVars, concVars, adminVars, uploadVars, payload, resolved_links,
                    uploaded_files, status, reply, direct, max_size, transferVars, dc,
                    log, crashed, membership >>

NextExtract == Extract

SpecExtract == InitExtract /\ [][NextExtract]_vars

(***************************************************************************)
(* The admin commands, beside a run of the pipeline                        *)
(***************************************************************************)
\* the environment variable ADMIN_ID, bot.py:31: "7, 78,"
ADMIN_ID == <<"7", ",", " ", "7", "8", ",">>

\* message.from_user is None (uid = None; `not uid` is true of None and of 0)
NoSender == 0

\* who sends commands: nobody, the listed users 7 and 78, and the users 8 and 87
Senders == {NoSender, 7, 8, 78, 87}

DigitChars == <<"0", "1", "2", "3", "4", "5", "6", "7", "8", "9">>

\* str(n) of a natural number
RECURSIVE Str(_)
Str(n) ==
    IF n < 10 THEN << DigitChars[n + 1] >>
    ELSE Str(n \div 10) \o << DigitChars[(n % 10) + 1] >>

\* s.split(","), the characters from index i on, cur being the piece begun
RECURSIVE SplitComma(_, _, _)
SplitComma(str, i, cur) ==
    IF i > Len(str) THEN << cur >>
    ELSE IF str[i] = "," THEN << cur >> \o SplitComma(str, i + 1, <<>>)
    ELSE SplitComma(str, i + 1, Append(cur, str[i]))

\* s.strip()
RECURSIVE Strip(_)
Strip(str) ==
    IF str = <<>> THEN str
    ELSE IF IsSpace(Head(str)) THEN Strip(Tail(str))
    ELSE IF IsSpace(str[Len(str)]) THEN Strip(SubSeq(str, 1, Len(str) - 1))
    ELSE str

\* a check that lets every sender pass
is_adminAnyone(user_id) == TRUE

\* bot.py:127-131
is_admin(user_id) ==
    IF ADMIN_ID = <<>> THEN FALSE
    ELSE LET pieces    == SplitComma(ADMIN_ID, 1, <<>>)
             admin_ids == {Strip(pieces[i]) : i \in {j \in 1..Len(pieces) : Strip(pieces[j]) # <<>>}}
         IN Str(user_id) \in admin_ids

\* bot.py:203-204: the wrapper lets the command through
Authorized(uid) == uid # NoSender /\ is_admin(uid)

SetCommands == {"set_dumb_channel", "set_force_sub", "set_api_template"}
RemoveCommands == {"remove_dumb_channel", "remove_force_sub"}
AdminCommands == SetCommands \cup RemoveCommands \cup {"stats"}

\* the argument of a command: none, or a channel or template
CommandArgs == {"", "@c1"}

\* bot.py:201-208 and 313-371: a command of name sent by uid with argument arg is
\* handled; chatOk: client.get_chat(ch) returns
AdminCommand(name, uid, arg, chatOk) ==
    /\ ncmd < MaxCmds
    /\ ncmd' = ncmd + 1
    /\ IF ~Authorized(uid)
       THEN /\ cmd' = [name |-> name, uid |-> uid, arg |-> arg, reply |-> "not authorized"]
            /\ UNCHANGED settingsVars
       ELSE IF name \in SetCommands /\ arg = ""
       THEN /\ cmd' = [name |-> name, uid |-> uid, arg |-> arg, reply |-> "Usage"]
            /\ UNCHANGED settingsVars
       ELSE IF name \in {"set_dumb_channel", "set_force_sub"} /\ ~chatOk
       THEN /\ cmd' = [name |-> name, uid |-> uid, arg |-> arg, reply |-> "Failed to set"]
            /\ UNCHANGED settingsVars
       ELSE /\ cmd' = [name |-> name, uid |-> uid, arg |-> arg, reply |-> "ok"]
            /\ dumb_channel' = IF name = "set_dumb_channel" THEN arg
                               ELSE IF name = "remove_dumb_channel" THEN ""
                               ELSE dumb_channel
            /\ force_sub' = IF name = "set_force_sub" THEN arg
                            ELSE IF name = "remove_force_sub" THEN ""
                            ELSE force_sub
            /\ api_template' = IF name = "set_api_template" THEN arg ELSE api_template
    /\ UNCHANGED << pc, concVars, extractVars, uploadVars, resolved_links, uploaded_files,
                    status, reply, direct, max_size, transferVars, dc, log, crashed,
                    membership >>

\* a message has arrived; no command was handled since the start
InitAdmin ==
    /\ InitCommon
    /\ AuxIdle
    /\ pc = "recv"
    /\ force_sub = ""
    /\ dumb_channel \in {"", "@dumb"}
    /\ api_template = "default"
    /\ max_size = 0
    /\ status = ""
    /\ direct = <<>>

Command ==
    \E name \in AdminCommands, uid \in Senders, arg \in CommandArgs, chatOk \in BOOLEAN :
        /\ (arg = "" \/ name \notin {"set_dumb_channel", "set_force_sub"}) => chatOk
        /\ (name \notin SetCommands) => arg = ""
        /\ AdminCommand(name, uid, arg, chatOk)

\* the download of the run beside the commands: a body of one chunk, no length advertised
DlOpenAdmin == Open(200, 0, FALSE, <<"", ".bin">>)

ReadAdmin ==
    /\ nread < 1
    /\ Read(1, 0)

NextAdmin ==
    \/ Command
    \/ Receive
    \/ Resolve
    \/ DlOpenAdmin
    \/ ReadAdmin
    \/ StreamEnd
    \/ ReadSettings
    \/ UploadArchive
    \/ CopyToUser
    \/ FallbackUpload
    \/ UploadDirect

SpecAdmin == InitAdmin /\ [][NextAdmin]_vars

(***************************************************************************)
(* The uploads with their progress callback                                *)
(***************************************************************************)
\* the platform client uploads a file in parts of 512 KiB and calls
\* progress(current, total) after each part
PartSize == 524288

\* the advertised lengths of the files: one part, and three parts
UploadTotals == {8 * chunk_size, 24 * chunk_size}

\* text_handler is about to call download_into_spooled_file
InitUpload ==
    /\ InitCommon
    /\ AuxIdle
    /\ pc = "dl_open"
    /\ force_sub = ""
    /\ dumb_channel \in {"", "@dumb"}
    /\ api_template = "default"
    /\ max_size = 0
    /\ status = "Resolving"
    /\ direct = UrlA

DlOpenUpload ==
    \E cl \in UploadTotals : Open(200, cl, FALSE, <<"", ".bin">>)

\* a chunk of chunk_size bytes, up to the advertised length
ReadUpload == Read(chunk_size, 0)

\* bot.py:289-294, progress(current, total) of make_progress_cb, called by the
\* platform client inside an upload call after a part was sent: the percent is
\* current * 100 / total (kept as current and total) and a task running
\* edit_status is created, on every call
UploadProgress ==
    /\ pc \in UploadCalls
    /\ LET size    == BLen(tmp.data)
           current == Min(sent[pc] + PartSize, size)
       IN /\ sent[pc] < size
          /\ sent' = [sent EXCEPT ![pc] = current]
          /\ tasks' = Append(tasks, [prefix |-> pc, current |-> current, total |-> size])
    /\ UNCHANGED << pc, settingsVars, concVars, extractVars, adminVars, edits,
                    resolved_links, uploaded_files, status, reply, direct, max_size,
                    transferVars, dc, log, crashed, membership >>

\* bot.py:280-287, edit_status: the oldest task runs and issues its edit of the
\* status message, which is applied or raises (the exception is swallowed)
RunEditTask ==
    /\ tasks # <<>>
    /\ edits' = Append(edits, Head(tasks))
    /\ tasks' = Tail(tasks)
    /\ \E ok \in BOOLEAN : status' = IF ok THEN "Upload progress" ELSE status
    /\ UNCHANGED << pc, settingsVars, concVars, extractVars, adminVars, sent,
                    resolved_links, uploaded_files, reply, direct, max_size,
                    transferVars, dc, log, crashed, membership >>

NextUpload ==
    \/ DlOpenUpload
    \/ ReadUpload
    \/ StreamEnd
    \/ ReadSettings
    \/ UploadArchive
    \/ CopyToUser
    \/ FallbackUpload
    \/ UploadDirect
    \/ UploadProgress
    \/ RunEditTask

SpecUpload == InitUpload /\ [][NextUpload]_vars

(***************************************************************************)
(* The transfer engine on a body above 100 MiB without an advertised       *)
(* length                                                                  *)
(***************************************************************************)
InitBig ==
    /\ InitCommon
    /\ AuxIdle
    /\ pc = "dl_open"
    /\ force_sub = ""
    /\ dumb_channel = ""
    /\ api_template = "default"
    /\ max_size = 0
    /\ status = "Resolving"
    /\ direct = UrlA

\* the response carries no Content-Length (chunked transfer encoding)
DlOpenBig ==
    \E hd \in StreamHeads : Open(200, 0, FALSE, hd)

\* a chunk of chunk_size bytes
ReadBig ==
    /\ nread < MaxBigChunks
    /\ Read(chunk_size, 0)

NextBig ==
    \/ DlOpenBig
    \/ ReadBig
    \/ TransportError
    \/ StreamEnd

SpecBig == InitBig /\ [][NextBig]_vars

(***************************************************************************)
(* Concurrent runs of text_handler and the counters                        *)
(*                                                                         *)
(* Each run is followed from one suspension point (await) to the next; the *)
(* code between two awaits runs without interleaving on the event loop.    *)
(* stat_incr holds no await: its SELECT and UPDATE are one step.           *)
(***************************************************************************)
InstIds == 1..NInst

\* a run that holds no row read earlier
NoVal == -2

Row(key) == IF key = "resolved_links" THEN resolved_links ELSE uploaded_files

SetRow(key, v) ==
    /\ resolved_links' = IF key = "resolved_links" THEN v ELSE resolved_links
    /\ uploaded_files' = IF key = "uploaded_files" THEN v ELSE uploaded_files

\* stat_incr with a suspension between the SELECT and the UPDATE
StatIncrStepSplit(i, key, next) ==
    IF inst[i].val = NoVal
    THEN /\ inst' = [inst EXCEPT ![i].val = Row(key)]
         /\ UNCHANGED << resolved_links, uploaded_files, incrCalls >>
    ELSE /\ SetRow(key, stat_incr(inst[i].val, 1))
         /\ incrCalls' = [incrCalls EXCEPT ![key] = @ + 1]
         /\ inst' = [inst EXCEPT ![i] = [pc |-> next, val |-> NoVal]]

\* run i calls stat_incr(key, 1), bot.py:94-107, and goes on to next
StatIncrStep(i, key, next) ==
    /\ SetRow(key, stat_incr(Row(key), 1))
    /\ incrCalls' = [incrCalls EXCEPT ![key] = @ + 1]
    /\ inst' = [inst EXCEPT ![i].pc = next]

\* the runs have received their messages; the stats rows hold any earlier counts
InitConc ==
    /\ InitRun
    /\ pc = "idle"
    /\ force_sub = ""
    /\ dumb_channel = ""
    /\ api_template = "default"
    /\ max_size = 0
    /\ status = ""
    /\ direct = <<>>
    /\ resolved_links \in {NoRow, 0, 5}
    /\ uploaded_files \in {NoRow, 2}
    /\ stats0 = [k \in StatKeys |-> Row(k)]
    /\ incrCalls = [k \in StatKeys |-> 0]
    /\ inst = [i \in InstIds |-> [pc |-> "resolve", val |-> NoVal]]
    /\ ExtractIdle
    /\ AdminIdle
    /\ UploadIdle

\* what a step of a concurrent run leaves alone
ConcFrame ==
    UNCHANGED << pc, settingsVars, status, reply, direct, max_size, transferVars, dc,
                 log, crashed, membership, stats0, extractVars, adminVars, uploadVars >>

\* an await of run i returns (ok) or raises: the run goes on or ends
Await(i, next) ==
    /\ \E ok \in BOOLEAN : inst' = [inst EXCEPT ![i].pc = IF ok THEN next ELSE "done"]
    /\ UNCHANGED << resolved_links, uploaded_files, incrCalls >>
    /\ ConcFrame

\* bot.py:391-411: the resolver call returns and a URL is extracted, or not
CResolve(i) ==
    /\ inst[i].pc = "resolve"
    /\ Await(i, "incr_resolved")

\* bot.py:413: stat_incr("resolved_links", 1)
CIncrResolved(i) ==
    /\ inst[i].pc = "incr_resolved"
    /\ StatIncrStep(i, "resolved_links", "download")
    /\ ConcFrame

\* bot.py:425-436: the download returns or raises
CDownload(i) ==
    /\ inst[i].pc = "download"
    /\ Await(i, "upload")

\* bot.py:448-485 and 489-495: the uploads and the copy end delivered, or raise
CUpload(i) ==
    /\ inst[i].pc = "upload"
    /\ Await(i, "incr_uploaded")

\* bot.py:486 and 496: stat_incr("uploaded_files", 1)
CIncrUploaded(i) ==
    /\ inst[i].pc = "incr_uploaded"
    /\ StatIncrStep(i, "uploaded_files", "done")
    /\ ConcFrame

NextConc ==
    \E i \in InstIds :
        \/ CResolve(i)
        \/ CIncrResolved(i)
        \/ CDownload(i)
        \/ CUpload(i)
        \/ CIncrUploaded(i)

SpecConc == InitConc /\ [][NextConc]_vars

(***************************************************************************)
(* Properties                                                              *)
(***************************************************************************)
\* download_into_spooled_file has returned to text_handler
DownloadReturned ==
    tmp.state # "none" /\ dlError = "" /\ pc \notin {"dl_open", "streaming"}

\* the response has arrived
Answered == resp.status # 0

\* C1: with max_size = N > 0 and an advertised content-length above N the transfer
\* fails before any body chunk is read: no chunk is read, the buffer holds no byte
\* and the progress callback was never invoked.
C1_EagerFailure ==
    (Answered /\ max_size > 0 /\ resp.content_length > max_size)
        => /\ dlError # ""
           /\ (resp.status = 200 => dlError = "toolarge")
           /\ pc = "done"
           /\ nread = 0
           /\ tmp.data = NoBytes
           /\ events = <<>>

C1_Witness ==
    /\ resp.status = 200
    /\ max_size > 0
    /\ resp.content_length > max_size
    /\ dlError = "toolarge"

\* C2: with no advertised content-length and max_size = N > 0 the transfer fails as
\* too large exactly at the first chunk after which the byte count exceeds N: the
\* loop never goes on with a count above N, a too-large failure has a count above N
\* that was at most N before the last chunk, and a transfer that returned has a
\* count of at most N.
C2_ReactiveFailure ==
    (resp.status = 200 /\ resp.content_length = 0 /\ max_size > 0)
        => /\ (pc = "streaming" => downloaded <= max_size)
           /\ (dlError = "toolarge"
                 => /\ downloaded > max_size
                    /\ downloaded - lastLen <= max_size
                    /\ pc = "done")
           /\ (DownloadReturned => downloaded <= max_size)
           /\ dlError \in {"", "toolarge", "transport"}

C2_Witness ==
    /\ resp.status = 200
    /\ resp.content_length = 0
    /\ max_size > 0
    /\ dlError = "toolarge"
    /\ nread >= 2
    /\ downloaded - lastLen = max_size

\* C3: with max_size = N > 0 no transfer that returned successfully has a
\* total_bytes (downloaded) above N, whatever length was advertised.
C3_NoSuccessAboveLimit ==
    (DownloadReturned /\ max_size > 0) => downloaded <= max_size

\* C4: a run that has ended after its spooled buffer was created has closed it.
C4_BufferClosedAtExit ==
    (pc = "done" /\ tmp.state # "none") => tmp.state = "closed"

\* C5: the percents passed to the progress callback within one transfer, the final
\* 100 included, are non-decreasing and each lies in 0..100.
C5_PercentsOrderedInRange ==
    \A i \in 1..Len(events) :
        /\ events[i] \in 0..100
        /\ (i > 1 => events[i - 1] <= events[i])

\* C6: a successful transfer with an advertised total whose body has exactly that
\* many bytes invokes the progress callback with percent = 100 exactly once.
C6_OneHundredOnce ==
    (DownloadReturned /\ total > 0 /\ downloaded = total)
        => Cardinality({i \in 1..Len(events) : events[i] = 100}) = 1

\* C7: a transfer invokes the progress callback at most 52 times, whatever the
\* size of the body and the number of chunks.
C7_AtMost52Events == Len(events) <= 52

\* C8: when the transfer has returned, the buffer stands at byte 0, holds the
\* received chunks concatenated in arrival order, its length is total_bytes, and
\* reading it to the end, seeking to 0 and reading again gives those bytes twice.
C8_BufferRoundTrip ==
    (DownloadReturned /\ pc = "settings")
        => LET first  == SpooledReadData(tmp)
               again  == SpooledSeek(SpooledReadFile(tmp), 0)
               second == SpooledReadData(again)
           IN /\ tmp.pos = 0
              /\ tmp.data = received
              /\ BLen(tmp.data) = downloaded
              /\ first = received
              /\ second = received
              /\ SpooledReadData(SpooledReadFile(tmp)) = NoBytes

\* a returned transfer whose content went past the spool limit
C8_Witness ==
    /\ DownloadReturned
    /\ pc = "settings"
    /\ tmp.rolled
    /\ Len(received) > 2

\* positions in the call log
SendOps == {"send_video", "send_document"}
ArchiveSends == {i \in 1..Len(log) : log[i].op \in SendOps /\ log[i].to = "archive"}
UserSends == {i \in 1..Len(log) : log[i].op \in SendOps /\ log[i].to = "user"}
Copies == {i \in 1..Len(log) : log[i].op = "copy"}
Gets == {i \in 1..Len(log) : log[i].op = "get"}
Resolves == {i \in 1..Len(log) : log[i].op = "resolve"}

FailureText(op) ==
    IF op = "resolve" THEN {"Error contacting resolver"}
    ELSE IF op = "get" THEN {"Download failed"}
    ELSE {"Upload failed"}

\* C10: when a stage fails (the resolver call raises, the extraction finds no URL,
\* the download fails, an upload fails) nothing of a later stage is done in the
\* run, no stage is attempted twice, and the status text reports that failure.
C10_FailureEndsRun ==
    /\ Cardinality(Resolves) <= 1
    /\ Cardinality(Gets) <= 1
    /\ Cardinality(ArchiveSends) <= 1
    /\ Cardinality(UserSends) <= 1
    /\ \A i \in 1..Len(log) :
         (~log[i].ok /\ log[i].op # "copy")
             => /\ i = Len(log)
                /\ pc = "done"
                /\ status \in FailureText(log[i].op)
    /\ \A i \in Resolves : \A j \in Gets \cup ArchiveSends \cup UserSends \cup Copies : i < j
    /\ \A i \in Gets : \A j \in ArchiveSends \cup UserSends \cup Copies : i < j
    /\ (Resolves # {} /\ direct = <<>>)
           => /\ Len(log) = 1
              /\ pc = "done"
              /\ (log[1].ok => status \in {"Could not parse (raw)", "Could not parse"})
              /\ resolved_links = 0
    /\ (dlError # "")
           => /\ pc = "done"
              /\ status = "Download failed"
              /\ ArchiveSends \cup UserSends \cup Copies = {}
              /\ log[Len(log)].op = "get"
              /\ uploaded_files = 0

\* a download that failed in mid-stream, after an extraction that succeeded
C10_Witness ==
    /\ dlError = "transport"
    /\ nread >= 1
    /\ pc = "done"
    /\ status = "Download failed"

\* an extraction that found no URL
C10_WitnessNoUrl ==
    /\ Resolves # {}
    /\ log[1].ok
    /\ direct = <<>>
    /\ pc = "done"

\* every concurrent run has finished
AllDone == \A i \in InstIds : inst[i].pc = "done"

\* C11: for concurrent runs interleaved at their suspension points no counter
\* update is lost: each counter equals its initial value plus the number of
\* stat_incr calls made on its key, at every moment and so once all runs finished.
C11_NoLostUpdate ==
    \A k \in StatKeys : stat_get(Row(k)) = stat_get(stats0[k]) + incrCalls[k]

\* all runs finished, every one counted a resolved link, on a row that did not exist
C11_Witness ==
    /\ inst # <<>>
    /\ AllDone
    /\ stats0["resolved_links"] = NoRow
    /\ incrCalls["resolved_links"] = NInst
    /\ incrCalls["uploaded_files"] >= 2

\* the bytes of the chunks read so far, in arrival order
RECURSIVE ChunksData(_)
ChunksData(cs) ==
    IF cs = <<>> THEN NoBytes
    ELSE BAppend(ChunksData(SubSeq(cs, 1, Len(cs) - 1)), cs[Len(cs)][2], cs[Len(cs)][1])

\* the number of bytes of the first k chunks
RECURSIVE ChunksLen(_, _)
ChunksLen(cs, k) == IF k = 0 THEN 0 ELSE ChunksLen(cs, k - 1) + cs[k][1]

\* the limit is passed by what the response advertises or by some prefix of the body
RefTooLarge ==
    \/ (max_size # 0 /\ resp.content_length # 0 /\ resp.content_length > max_size)
    \/ (max_size # 0 /\ resp.content_length = 0
        /\ \E k \in 1..Len(chunks) : ChunksLen(chunks, k) > max_size)

\* C12: a failure of the progress callback never changes the outcome of the
\* transfer: whatever callbacks raised, the transfer fails only for the status, the
\* size limit or the transport, as the response and the body alone decide, and a
\* returned transfer gives the same buffer content (rewound), byte count, content
\* type and filename hint as the chunks and the headers received.
C12_CallbackFailureHarmless ==
    /\ dlError \in {"", "status", "toolarge", "transport"}
    /\ Answered =>
         /\ (dlError = "status") = (resp.status # 200)
         /\ (dlError = "toolarge") = (resp.status = 200 /\ RefTooLarge)
         /\ tmp.data = ChunksData(chunks)
         /\ downloaded = ChunksLen(chunks, Len(chunks))
    /\ (DownloadReturned /\ pc = "settings") =>
         /\ tmp.pos = 0
         /\ tmp.state = "open"
         /\ SpooledReadData(tmp) = ChunksData(chunks)

\* a transfer of several chunks returned although a progress callback had raised
C12_Witness ==
    /\ cbRaised
    /\ DownloadReturned
    /\ pc = "settings"
    /\ nread >= 2
    /\ Len(events) >= 2

\* a transfer failed as too large after a progress callback had raised
C12_WitnessFailure ==
    /\ cbRaised
    /\ dlError = "toolarge"
    /\ nread >= 2

\* the membership check did not report a member: a non-member status, or it raised
NotAMember ==
    force_sub # "" /\ membership # "" /\ membership \notin {"creator", "administrator", "member"}

\* C15: with force_sub set and a membership check that reports a non-member or
\* raises, the run replies with an access-denied message and ends: no status
\* message, no resolver call, no download, no upload or copy, and both counters
\* keep their values.
C15_ForceSubGate ==
    NotAMember =>
        /\ reply = "Access denied"
        /\ pc = "done"
        /\ status = ""
        /\ log = <<>>
        /\ ~Answered
        /\ tmp.state = "none"
        /\ resolved_links = 0
        /\ uploaded_files = 0

\* the membership check raised and the run ended at the gate
C15_Witness ==
    /\ force_sub # ""
    /\ membership = "error"
    /\ pc = "done"
    /\ reply = "Access denied"

\* the membership check reported a non-member and the run ended at the gate
C15_WitnessLeft ==
    /\ force_sub # ""
    /\ membership = "left"
    /\ pc = "done"
    /\ reply = "Access denied"

\* the calls that put the file in the requester's chat: a copy or an upload to
\* the requester that succeeded
Deliveries == {i \in 1..Len(log) : log[i].to = "user" /\ log[i].ok}

\* C20: uploaded_files is incremented at most once per run, and once exactly when
\* the file reached the requester (a successful copy, fallback upload or direct
\* upload); a run whose archive upload, fallback upload or direct upload fails
\* does not increment it.
C20_CountedIffDelivered ==
    /\ uploaded_files \in {0, 1}
    /\ Cardinality(Deliveries) <= 1
    /\ (uploaded_files = 1) = (Deliveries # {})
    /\ status = "Upload failed" => uploaded_files = 0

\* a run delivered by the fallback upload after a failed copy, counted once
C20_Witness ==
    /\ pc = "done"
    /\ uploaded_files = 1
    /\ \E i \in Copies : ~log[i].ok
    /\ \E i \in UserSends : log[i].ok

\* a run whose fallback upload failed after a successful archive upload: not counted
C20_WitnessFailed ==
    /\ pc = "done"
    /\ uploaded_files = 0
    /\ \E i \in ArchiveSends : log[i].ok
    /\ \E i \in UserSends : ~log[i].ok

\* the percent of the event emitted last, -1 before the first event
LastEmitted == IF events = <<>> THEN -1 ELSE events[Len(events)]

\* a round of the chunk loop: at most one event, of an even percent that differs
\* from the one emitted before, and none when the chunk's percent is the one
\* emitted last
ThrottledRound ==
    nread' = nread + 1 =>
        /\ \/ events' = events
           \/ /\ Len(events') = Len(events) + 1
              /\ SubSeq(events', 1, Len(events)) = events
              /\ events'[Len(events')] % 2 = 0
              /\ events'[Len(events')] # LastEmitted
        /\ (dlError' = "" /\ Percent(downloaded', total) = LastEmitted) => events' = events

\* C17: every download progress event other than the final one carries an even
\* percent that differs from the percent of the event emitted before it; no event
\* of an odd percent is ever emitted; a chunk whose percent equals the percent
\* emitted last emits nothing.
C17_EvenAndChanged ==
    /\ [](\A i \in 1..Len(events) : events[i] % 2 = 0)
    /\ [][ThrottledRound]_vars

\* a chunk of an odd percent has just been read without an event, after events
\* of even percents
C17_Witness ==
    /\ pc = "streaming"
    /\ total # 0
    /\ Percent(downloaded, total) % 2 = 1
    /\ Len(events) >= 2
    /\ Len(events) < nread

\* a chunk whose percent is the one emitted last has been read without an event
C17_WitnessSame ==
    /\ pc = "streaming"
    /\ nread >= 2
    /\ events # <<>>
    /\ Percent(downloaded, total) = LastEmitted
    /\ Percent(downloaded - lastLen, total) = LastEmitted
    /\ Len(events) < nread

\* every event but the last n has a percent of at most 99
AllButLastBelow100(n) == \A i \in 1..(Len(events) - n) : events[i] <= 99

\* C18: for a transfer with no advertised content-length every event emitted while
\* the body is streaming has a percent of at most 99, and exactly one event of
\* percent 100 is emitted, as the last event, once the stream has completed,
\* whatever the size of the body (a failed transfer emits none).
C18_CappedUntilTheEnd ==
    (Answered /\ resp.status = 200 /\ resp.content_length = 0) =>
        /\ (pc = "streaming" \/ dlError # "") => AllButLastBelow100(0)
        /\ DownloadReturned =>
             /\ events # <<>>
             /\ events[Len(events)] = 100
             /\ AllButLastBelow100(1)

\* a body of 100 MiB or more without an advertised length has been transferred
C18_Witness ==
    /\ DownloadReturned
    /\ resp.content_length = 0
    /\ downloaded >= 100 * MiB
    /\ Len(events) >= 50

\* the payload holds a string that starts with http under the key
HttpAt(key) ==
    LET val == DictGet(payload, key)
    IN val.t = "str" /\ Len(val.s) >= 4 /\ SubSeq(val.s, 1, 4) = <<"h", "t", "t", "p">>

\* C13: for every mapping payload in which one of the keys download, url, link,
\* download_url holds a string starting with http, extract_url returns the value
\* of the first such key in that order, whatever the insertion order, the other
\* keys and the nested values.
C13_KnownKeyPrecedence ==
    (pc = "extracted" /\ payload.t = "dict") =>
        /\ HttpAt("download") => extracted = DictGet(payload, "download").s
        /\ (~HttpAt("download") /\ HttpAt("url")) => extracted = DictGet(payload, "url").s
        /\ (~HttpAt("download") /\ ~HttpAt("url") /\ HttpAt("link"))
              => extracted = DictGet(payload, "link").s
        /\ (~HttpAt("download") /\ ~HttpAt("url") /\ ~HttpAt("link")
              /\ HttpAt("download_url")) => extracted = DictGet(payload, "download_url").s

\* url wins over link and download_url although it was inserted last and download
\* holds a string with an embedded URL only
C13_Witness ==
    /\ pc = "extracted"
    /\ payload.t = "dict"
    /\ Len(payload.items) = 5
    /\ payload.items[1][1] = "data"
    /\ DictGet(payload, "download").t = "str"
    /\ ~HttpAt("download")
    /\ HttpAt("url")
    /\ HttpAt("link")
    /\ DictGet(payload, "link").s # DictGet(payload, "url").s
    /\ extracted = DictGet(payload, "url").s

\* the string values of a payload in depth-first order: mappings in insertion
\* order, sequences in index order
RECURSIVE LeafStrings(_)
RECURSIVE LeafStringsOfAll(_)
LeafStrings(obj) ==
    IF obj.t = "str" THEN << obj.s >>
    ELSE IF obj.t = "dict" THEN LeafStringsOfAll([i \in 1..Len(obj.items) |-> obj.items[i][2]])
    ELSE IF obj.t = "list" THEN LeafStringsOfAll(obj.items)
    ELSE <<>>

LeafStringsOfAll(vs) ==
    IF vs = <<>> THEN <<>> ELSE LeafStrings(Head(vs)) \o LeafStringsOfAll(Tail(vs))

\* the string starts with http or holds a match of the generic URL pattern
Qualifies(str) == StartsWith(str, Http) \/ GenericUrlSearch(str) # <<>>

\* what the search gives for a qualifying string: the string when it starts with
\* http, else the URL matched in it
UrlOf(str) == IF StartsWith(str, Http) THEN str ELSE GenericUrlSearch(str)

\* the first qualifying string of the payload in depth-first order, <<>> if none
FirstQualifying ==
    LET ls == LeafStrings(payload)
        q  == {i \in 1..Len(ls) : Qualifies(ls[i])}
    IN IF q = {} THEN <<>> ELSE UrlOf(ls[CHOOSE i \in q : \A j \in q : i <= j])

\* no known key of the top level holds a string that starts with http
NoTopLevelMatch ==
    payload.t = "dict" =>
        ~(HttpAt("download") \/ HttpAt("url") \/ HttpAt("link") \/ HttpAt("download_url"))

\* C14: for every nested payload, a mapping or a sequence at the top level, with
\* no top-level known-field match, extract_url returns the first string value in
\* depth-first order (mapping insertion order, sequence index order) that starts
\* with http or matches the generic URL pattern, and nothing if there is none.
C14_DepthFirstSearch ==
    (pc = "extracted" /\ payload.t \in {"dict", "list"} /\ NoTopLevelMatch)
        => extracted = FirstQualifying

\* the depth-first search as the code runs it: for mapping payloads only
C14_DepthFirstSearchOfMappings ==
    (pc = "extracted" /\ payload.t = "dict" /\ NoTopLevelMatch)
        => extracted = FirstQualifying

\* a mapping without a top-level match whose first qualifying string lies in a
\* nested sequence, after a string that does not qualify
C14_MappingWitness ==
    /\ pc = "extracted"
    /\ payload.t = "dict"
    /\ NoTopLevelMatch
    /\ Len(payload.items) >= 2
    /\ payload.items[1][2].t = "str"
    /\ ~Qualifies(payload.items[1][2].s)
    /\ payload.items[2][2].t = "list"
    /\ extracted = UrlA

\* the users listed in ADMIN_ID = "7, 78,"
ListedAdmins == {7, 78}

\* a step that changes a setting is the handling of a set or remove command sent
\* by a listed user; a command of anyone else is answered with the denial and
\* changes no setting
SettingsFrame ==
    /\ << force_sub, dumb_channel, api_template >>' # << force_sub, dumb_channel, api_template >>
          => /\ ncmd' = ncmd + 1
             /\ cmd'.uid \in ListedAdmins
             /\ cmd'.name \in {"set_dumb_channel", "remove_dumb_channel", "set_force_sub",
                               "remove_force_sub", "set_api_template"}
    /\ (ncmd' = ncmd + 1 /\ cmd'.uid \notin ListedAdmins)
          => /\ cmd'.reply = "not authorized"
             /\ << force_sub, dumb_channel, api_template >>' = << force_sub, dumb_channel, api_template >>

\* C16: the settings api_template, dumb_channel and force_sub are changed at run
\* time only by an admin command of a user listed in ADMIN_ID: a command of any
\* other user, or without a sender, is answered with a denial and leaves every
\* setting as it was, and no step of a pipeline run writes a setting.
C16_SettingsOnlyByAdmins == [][SettingsFrame]_vars

\* user 8 (not listed, although 78 is) was denied set_force_sub after a listed user
\* had set the dumb channel, beside a run that delivered its file
C16_Witness ==
    /\ ncmd = 2
    /\ cmd = [name |-> "set_force_sub", uid |-> 8, arg |-> "@c1", reply |-> "not authorized"]
    /\ force_sub = ""
    /\ dumb_channel = "@c1"
    /\ pc = "done"
    /\ uploaded_files = 1

\* the integer percent of a status edit of an upload
EditPercent(e) == (e.current * 100) \div e.total

\* C19: the progress callback of an upload follows the throttling contract of the
\* download: a status edit is issued only when the integer percent is even (0 and
\* 100 included) and differs from the percent of the edit issued before it in the
\* same upload call.
C19_UploadEditsThrottled ==
    \A i \in 1..Len(edits) :
        /\ EditPercent(edits[i]) % 2 = 0
        /\ (i > 1 /\ edits[i - 1].prefix = edits[i].prefix)
              => EditPercent(edits[i]) # EditPercent(edits[i - 1])

\* the texts text_handler writes last: the Done messages and the Upload failed message
TerminalTexts == {"Done (dumb channel)", "Done (direct)", "Upload failed"}

\* the run went through its uploads and has written its terminal status text
TerminalWritten ==
    /\ pc = "done"
    /\ ~crashed
    /\ dlError = ""
    /\ \E i \in 1..Len(log) : log[i].op \in SendOps

\* C21: once a run has written its terminal status text (a Done message or the
\* Upload failed message) no upload-progress edit of that run is applied to the
\* status message afterwards: the status message keeps the terminal text under
\* every scheduling of the tasks created by make_progress_cb.
C21_TerminalStatusIsLast ==
    TerminalWritten => status \in TerminalTexts

=============================================================================
